---- MODULE Spec2Model ----
(***************************************************************************)
(* Window control facade of src-tauri/src/lib.rs: the four commands        *)
(* set_display_mode, toggle_fullscreen, is_fullscreen and quit, each a     *)
(* sequence of calls on the host window whose errors are dropped (.ok(),   *)
(* unwrap_or(false)).  One step of the model is one platform call, so that *)
(* the order of the calls inside a preset and the gap between the read and *)
(* the write of toggle_fullscreen are visible.                             *)
(***************************************************************************)
EXTENDS Integers, Sequences, FiniteSets, TLC

VARIABLES
    win,        \* the host window: fullscreen, decorations, maximized, size, position
    exit_code,  \* <<>> while the application runs, <<c>> once it exited with code c
    pc,         \* "idle", or the command whose next platform call is pending
    cmd,        \* the command that is running or that returned last ("" before the first)
    mode,       \* the mode argument of that command when it is set_display_mode
    i,          \* index of the next call of the preset
    is_fs,      \* the local is_fs of toggle_fullscreen
    calls,      \* platform calls attempted by that command so far, with their outcome
    ret,        \* what that command returned to the caller
    snap,       \* the window as it was when that command was invoked
    prev,       \* summary of the command that returned before that one
    ext         \* changes of the fullscreen flag by another source during that command

vars == <<win, exit_code, pc, cmd, mode, i, is_fs, calls, ret, snap, prev, ext>>

----------------------------------------------------------------------------
(* Bounds and constants *)

MaxOtherSizes == 1      \* window sizes other than the default one
MaxExternal == 1        \* external changes of the fullscreen flag during one command

DefaultWidth == 1280
DefaultHeight == 720

DefaultSize == [w |-> DefaultWidth, h |-> DefaultHeight]

Sizes == {DefaultSize} \cup {[w |-> 800 * k, h |-> 600 * k] : k \in 1..MaxOtherSizes}

Positions == {"center", "elsewhere"}

Windows == [fullscreen : BOOLEAN, decorations : BOOLEAN, maximized : BOOLEAN,
            size : Sizes, position : Positions]

\* mode is an arbitrary string; three are recognized, the others stand for the rest
Modes == {"fullscreen", "borderless", "windowed", "Fullscreen", ""}

----------------------------------------------------------------------------
(* The platform calls *)

set_decorations(b) == [op |-> "set_decorations", arg |-> <<b>>]
set_fullscreen(b) == [op |-> "set_fullscreen", arg |-> <<b>>]
maximize == [op |-> "maximize", arg |-> <<>>]
unmaximize == [op |-> "unmaximize", arg |-> <<>>]
set_size(s) == [op |-> "set_size", arg |-> <<s.w, s.h>>]
center == [op |-> "center", arg |-> <<>>]
read_fullscreen == [op |-> "is_fullscreen", arg |-> <<>>]

\* effect of a platform call that succeeds
Effect(w, c) ==
    CASE c.op = "set_decorations" -> [w EXCEPT !.decorations = c.arg[1]]
      [] c.op = "set_fullscreen" -> [w EXCEPT !.fullscreen = c.arg[1]]
      [] c.op = "maximize" -> [w EXCEPT !.maximized = TRUE]
      [] c.op = "unmaximize" -> [w EXCEPT !.maximized = FALSE]
      [] c.op = "set_size" -> [w EXCEPT !.size = [w |-> c.arg[1], h |-> c.arg[2]]]
      [] c.op = "center" -> [w EXCEPT !.position = "center"]
      [] OTHER -> w

\* Preset with the borderless arm restoring instead of maximizing
PresetBorderlessUnmaximized(m) ==
    IF m = "fullscreen" THEN <<set_decorations(TRUE), set_fullscreen(TRUE)>>
    ELSE IF m = "borderless" THEN <<set_fullscreen(FALSE), set_decorations(FALSE), unmaximize>>
    ELSE <<set_fullscreen(FALSE), set_decorations(TRUE), unmaximize,
           set_size(DefaultSize), center>>

\* Preset with a separate arm for unrecognized modes that skips resize and recenter
PresetSeparateDefault(m) ==
    IF m = "fullscreen" THEN <<set_decorations(TRUE), set_fullscreen(TRUE)>>
    ELSE IF m = "borderless" THEN <<set_fullscreen(FALSE), set_decorations(FALSE), maximize>>
    ELSE IF m = "windowed" THEN <<set_fullscreen(FALSE), set_decorations(TRUE), unmaximize,
                                  set_size(DefaultSize), center>>
    ELSE <<set_fullscreen(FALSE), set_decorations(TRUE), unmaximize>>

\* Preset with the windowed arm not leaving fullscreen
PresetWindowedKeepsFullscreen(m) ==
    IF m = "fullscreen" THEN <<set_decorations(TRUE), set_fullscreen(TRUE)>>
    ELSE IF m = "borderless" THEN <<set_fullscreen(FALSE), set_decorations(FALSE), maximize>>
    ELSE <<set_decorations(TRUE), unmaximize, set_size(DefaultSize), center>>

\* Preset with the borderless arm removing the decorations before leaving fullscreen
PresetBorderlessSwapped(m) ==
    IF m = "fullscreen" THEN <<set_decorations(TRUE), set_fullscreen(TRUE)>>
    ELSE IF m = "borderless" THEN <<set_decorations(FALSE), set_fullscreen(FALSE), maximize>>
    ELSE <<set_fullscreen(FALSE), set_decorations(TRUE), unmaximize,
           set_size(DefaultSize), center>>

\* the match of set_display_mode: the calls of each arm, in order
Preset(m) ==
    IF m = "fullscreen" THEN <<set_decorations(TRUE), set_fullscreen(TRUE)>>
    ELSE IF m = "borderless" THEN <<set_fullscreen(FALSE), set_decorations(FALSE), maximize>>
    ELSE <<set_fullscreen(FALSE), set_decorations(TRUE), unmaximize,
           set_size(DefaultSize), center>>

\* ReadFullscreen with unwrap_or(true)
ReadFullscreenDefaultTrue(ok) == IF ok THEN win.fullscreen ELSE TRUE

\* Result<T>::unwrap_or(false) on the read of the fullscreen flag
ReadFullscreen(ok) == IF ok THEN win.fullscreen ELSE FALSE

Logged(c, ok) == [op |-> c.op, arg |-> c.arg, ok |-> ok]

AllOk(cs) == \A k \in 1..Len(cs) : cs[k].ok

Summary == [cmd |-> cmd, mode |-> mode, ok |-> AllOk(calls), fs0 |-> snap.fullscreen]

NoPrev == [cmd |-> "", mode |-> "", ok |-> TRUE, fs0 |-> FALSE]

running == exit_code = <<>>

----------------------------------------------------------------------------
(* Initial states: any window, no command invoked yet *)

Init ==
    /\ win \in Windows
    /\ exit_code = <<>>
    /\ pc = "idle"
    /\ cmd = ""
    /\ mode = ""
    /\ i = 1
    /\ is_fs = FALSE
    /\ calls = <<>>
    /\ ret = "unit"
    /\ snap = win
    /\ prev = NoPrev
    /\ ext = 0

----------------------------------------------------------------------------
(* Commands *)

\* the front end invokes set_display_mode(m)
set_display_mode(m) ==
    /\ running
    /\ pc = "idle"
    /\ pc' = "set_display_mode"
    /\ cmd' = "set_display_mode"
    /\ mode' = m
    /\ i' = 1
    /\ calls' = <<>>
    /\ ret' = "unit"
    /\ snap' = win
    /\ prev' = Summary
    /\ ext' = 0
    /\ UNCHANGED <<win, exit_code, is_fs>>

\* PresetCall with the Result propagated by ? instead of dropped: a failure returns
PresetCallAbort(ok) ==
    /\ running
    /\ pc = "set_display_mode"
    /\ i <= Len(Preset(mode))
    /\ win' = IF ok THEN Effect(win, Preset(mode)[i]) ELSE win
    /\ calls' = Append(calls, Logged(Preset(mode)[i], ok))
    /\ i' = i + 1
    /\ pc' = IF i = Len(Preset(mode)) \/ ~ok THEN "idle" ELSE pc
    /\ UNCHANGED <<exit_code, cmd, mode, is_fs, ret, snap, prev, ext>>

\* the next call of the preset; its Result is dropped by .ok()
PresetCall(ok) ==
    /\ running
    /\ pc = "set_display_mode"
    /\ i <= Len(Preset(mode))
    /\ win' = IF ok THEN Effect(win, Preset(mode)[i]) ELSE win
    /\ calls' = Append(calls, Logged(Preset(mode)[i], ok))
    /\ i' = i + 1
    /\ pc' = IF i = Len(Preset(mode)) THEN "idle" ELSE pc
    /\ UNCHANGED <<exit_code, cmd, mode, is_fs, ret, snap, prev, ext>>

\* toggle_fullscreen, first statement: let is_fs = window.is_fullscreen().unwrap_or(false)
toggle_read(ok) ==
    /\ running
    /\ pc = "idle"
    /\ pc' = "toggle_fullscreen"
    /\ cmd' = "toggle_fullscreen"
    /\ is_fs' = ReadFullscreen(ok)
    /\ calls' = <<Logged(read_fullscreen, ok)>>
    /\ ret' = "unit"
    /\ snap' = win
    /\ prev' = Summary
    /\ ext' = 0
    /\ UNCHANGED <<win, exit_code, mode, i>>

\* toggle_write always entering fullscreen: set_fullscreen(true)
toggle_writeAlwaysOn(ok) ==
    /\ running
    /\ pc = "toggle_fullscreen"
    /\ win' = IF ok THEN Effect(win, set_fullscreen(TRUE)) ELSE win
    /\ calls' = Append(calls, Logged(set_fullscreen(TRUE), ok))
    /\ pc' = "idle"
    /\ UNCHANGED <<exit_code, cmd, mode, i, is_fs, ret, snap, prev, ext>>

\* toggle_write without the negation: set_fullscreen(is_fs)
toggle_writeNotNegated(ok) ==
    /\ running
    /\ pc = "toggle_fullscreen"
    /\ win' = IF ok THEN Effect(win, set_fullscreen(is_fs)) ELSE win
    /\ calls' = Append(calls, Logged(set_fullscreen(is_fs), ok))
    /\ pc' = "idle"
    /\ UNCHANGED <<exit_code, cmd, mode, i, is_fs, ret, snap, prev, ext>>

\* toggle_write negating the flag the window holds at the write, not the value read
toggle_writeFresh(ok) ==
    /\ running
    /\ pc = "toggle_fullscreen"
    /\ win' = IF ok THEN Effect(win, set_fullscreen(~win.fullscreen)) ELSE win
    /\ calls' = Append(calls, Logged(set_fullscreen(~win.fullscreen), ok))
    /\ pc' = "idle"
    /\ UNCHANGED <<exit_code, cmd, mode, i, is_fs, ret, snap, prev, ext>>

\* toggle_fullscreen, second statement: window.set_fullscreen(!is_fs).ok()
toggle_write(ok) ==
    /\ running
    /\ pc = "toggle_fullscreen"
    /\ win' = IF ok THEN Effect(win, set_fullscreen(~is_fs)) ELSE win
    /\ calls' = Append(calls, Logged(set_fullscreen(~is_fs), ok))
    /\ pc' = "idle"
    /\ UNCHANGED <<exit_code, cmd, mode, i, is_fs, ret, snap, prev, ext>>

\* is_fullscreen: window.is_fullscreen().unwrap_or(false)
is_fullscreen(ok) ==
    /\ running
    /\ pc = "idle"
    /\ cmd' = "is_fullscreen"
    /\ calls' = <<Logged(read_fullscreen, ok)>>
    /\ ret' = IF ReadFullscreen(ok) THEN "true" ELSE "false"
    /\ snap' = win
    /\ prev' = Summary
    /\ ext' = 0
    /\ UNCHANGED <<win, exit_code, pc, mode, i, is_fs>>

\* quit with a failure exit code: app.exit(1)
quitNonZero ==
    /\ running
    /\ pc = "idle"
    /\ exit_code' = <<1>>
    /\ cmd' = "quit"
    /\ calls' = <<>>
    /\ ret' = "unit"
    /\ snap' = win
    /\ prev' = Summary
    /\ ext' = 0
    /\ UNCHANGED <<win, pc, mode, i, is_fs>>

\* quit: app.exit(0)
quit ==
    /\ running
    /\ pc = "idle"
    /\ exit_code' = <<0>>
    /\ cmd' = "quit"
    /\ calls' = <<>>
    /\ ret' = "unit"
    /\ snap' = win
    /\ prev' = Summary
    /\ ext' = 0
    /\ UNCHANGED <<win, pc, mode, i, is_fs>>

\* another source (the window manager, the user) flips the fullscreen flag
\* while a command is between two of its platform calls
External ==
    /\ running
    /\ pc # "idle"
    /\ ext < MaxExternal
    /\ win' = [win EXCEPT !.fullscreen = ~win.fullscreen]
    /\ ext' = ext + 1
    /\ UNCHANGED <<exit_code, pc, cmd, mode, i, is_fs, calls, ret, snap, prev>>

----------------------------------------------------------------------------
(* Specifications *)

Next ==
    \/ \E m \in Modes : set_display_mode(m)
    \/ \E ok \in BOOLEAN : PresetCall(ok)
    \/ \E ok \in BOOLEAN : toggle_read(ok)
    \/ \E ok \in BOOLEAN : toggle_write(ok)
    \/ \E ok \in BOOLEAN : is_fullscreen(ok)
    \/ quit

\* the commands run one at a time and nothing else touches the window
Spec == Init /\ [][Next]_vars

NextExt ==
    \/ Next
    \/ External

\* the same, with another source changing the fullscreen flag during a command
SpecExt == Init /\ [][NextExt]_vars

InitDecorated ==
    /\ Init
    /\ ~(win.fullscreen /\ ~win.decorations)

NextPresets ==
    \/ \E m \in Modes : set_display_mode(m)
    \/ PresetCall(TRUE)

\* only set_display_mode, every platform call succeeding
SpecPresets == InitDecorated /\ [][NextPresets]_vars

----------------------------------------------------------------------------
(* Vocabulary of the properties *)

RECURSIVE Run(_, _)
\* the window after the logged calls cs from window w, a failed call changing nothing
Run(w, cs) ==
    IF cs = <<>> THEN w
    ELSE Run(IF Head(cs).ok THEN Effect(w, Head(cs)) ELSE w, Tail(cs))

Issued(cs) == [k \in 1..Len(cs) |-> [op |-> cs[k].op, arg |-> cs[k].arg]]

Outcomes(cs) == [k \in 1..Len(cs) |-> cs[k].ok]

WithOutcomes(p, oks) == [k \in 1..Len(p) |-> Logged(p[k], oks[k])]

AsRet(b) == IF b THEN "true" ELSE "false"

Returned(c) == pc = "idle" /\ cmd = c

Recognized == {"fullscreen", "borderless", "windowed"}

----------------------------------------------------------------------------
(* Properties *)

\* C1: when every platform call succeeds, set_display_mode of a recognized
\* mode leaves the window in the documented preset: fullscreen is fullscreen
\* and decorated; borderless is not fullscreen, undecorated and maximized;
\* windowed is not fullscreen, decorated, not maximized, 1280x720, centered.
C1_PresetApplied ==
    (Returned("set_display_mode") /\ AllOk(calls)) =>
        /\ mode = "fullscreen" => (win.fullscreen /\ win.decorations)
        /\ mode = "borderless" =>
              (~win.fullscreen /\ ~win.decorations /\ win.maximized)
        /\ mode = "windowed" =>
              /\ ~win.fullscreen /\ win.decorations /\ ~win.maximized
              /\ win.size = [w |-> 1280, h |-> 720]
              /\ win.position = "center"

C1_Witness ==
    /\ Returned("set_display_mode") /\ AllOk(calls)
    /\ mode = "borderless"
    /\ snap.fullscreen /\ snap.decorations /\ ~snap.maximized
    /\ ~win.fullscreen /\ ~win.decorations /\ win.maximized

\* C2: a mode that is neither "fullscreen" nor "borderless" issues the calls
\* of "windowed", in the same order, and leaves the window that "windowed"
\* leaves from the same initial window under the same call outcomes.
C2_DefaultIsWindowed ==
    (Returned("set_display_mode") /\ mode \notin {"fullscreen", "borderless"}) =>
        /\ Issued(calls) = Preset("windowed")
        /\ win = Run(snap, WithOutcomes(Preset("windowed"), Outcomes(calls)))

C2_Witness ==
    /\ Returned("set_display_mode")
    /\ mode \notin Recognized
    /\ snap.fullscreen /\ snap.maximized /\ snap.size # DefaultSize
    /\ AllOk(calls)
    /\ win # snap

\* C3 as stated: two toggle_fullscreen in succession restore the fullscreen
\* flag the window had before the first.
C3_ToggleTwiceRestores ==
    (Returned("toggle_fullscreen") /\ prev.cmd = "toggle_fullscreen") =>
        win.fullscreen = prev.fs0

\* C3 amended: two toggle_fullscreen in succession, every platform call of
\* both succeeding, restore the fullscreen flag the window had before the
\* first.
C3_ToggleTwiceRestoresIfOk ==
    (Returned("toggle_fullscreen") /\ prev.cmd = "toggle_fullscreen"
        /\ prev.ok /\ AllOk(calls)) =>
        win.fullscreen = prev.fs0

C3_Witness ==
    /\ Returned("toggle_fullscreen") /\ prev.cmd = "toggle_fullscreen"
    /\ prev.ok /\ AllOk(calls)
    /\ prev.fs0 /\ ~snap.fullscreen /\ win.fullscreen

\* C4 as stated: is_fullscreen right after set_display_mode("fullscreen")
\* returns true, right after set_display_mode("windowed") returns false.
C4_QueryAfterPreset ==
    (Returned("is_fullscreen") /\ prev.cmd = "set_display_mode") =>
        /\ prev.mode = "fullscreen" => ret = "true"
        /\ prev.mode = "windowed" => ret = "false"

\* C4 amended: when the platform calls of both commands succeed,
\* is_fullscreen right after set_display_mode("fullscreen") returns true,
\* right after set_display_mode("windowed") returns false.
C4_QueryAfterPresetIfOk ==
    (Returned("is_fullscreen") /\ prev.cmd = "set_display_mode"
        /\ prev.ok /\ AllOk(calls)) =>
        /\ prev.mode = "fullscreen" => ret = "true"
        /\ prev.mode = "windowed" => ret = "false"

C4_Witness ==
    /\ Returned("is_fullscreen") /\ prev.cmd = "set_display_mode"
    /\ prev.ok /\ AllOk(calls)
    /\ prev.mode = "fullscreen" /\ ~prev.fs0
    /\ ret = "true"

\* C5: quit exits with code 0, and once the application has exited no
\* command is processed and the window never changes.
C5_QuitIsFinal ==
    /\ [](cmd = "quit" => exit_code = <<0>>)
    /\ [](exit_code # <<>> => (cmd = "quit" /\ exit_code = <<0>>))
    /\ [][exit_code # <<>> => vars' = vars]_vars

C5_Witness ==
    /\ cmd = "quit" /\ exit_code = <<0>>
    /\ prev.cmd = "toggle_fullscreen"

\* C6: in set_display_mode a failing platform call is dropped and nothing
\* else: the calls attempted so far are the preset's, in order, the command
\* returns only after the last one, the window is the initial one changed by
\* the calls that succeeded, and the caller gets no result.
C6_FailuresDiscarded ==
    cmd = "set_display_mode" =>
        /\ Len(calls) <= Len(Preset(mode))
        /\ Issued(calls) = SubSeq(Preset(mode), 1, Len(calls))
        /\ pc = "idle" => Len(calls) = Len(Preset(mode))
        /\ win = Run(snap, calls)
        /\ ret = "unit"

C6_Witness ==
    /\ Returned("set_display_mode") /\ mode = "windowed"
    /\ ~calls[1].ok /\ calls[2].ok /\ ~calls[3].ok /\ ~calls[4].ok /\ calls[5].ok
    /\ snap.fullscreen /\ ~snap.decorations /\ snap.position # "center"
    /\ win.fullscreen /\ win.decorations /\ win.position = "center"

\* C7: is_fullscreen returns the fullscreen flag when the read succeeds and
\* false when it fails, and leaves the window as it was.
C7_QueryIsPure ==
    Returned("is_fullscreen") =>
        /\ ret = (IF calls[1].ok THEN AsRet(snap.fullscreen) ELSE "false")
        /\ win = snap

C7_Witness ==
    /\ Returned("is_fullscreen")
    /\ ~calls[1].ok /\ win.fullscreen /\ ret = "false"

\* C8: toggle_fullscreen asks for the negation of the flag it read, a failed
\* read counting as false (so it then asks for fullscreen whatever the
\* window is), and changes nothing but the fullscreen flag.
C8_ToggleNegatesRead ==
    Returned("toggle_fullscreen") =>
        LET read == IF calls[1].ok THEN snap.fullscreen ELSE FALSE
        IN  /\ Len(calls) = 2
            /\ Issued(calls)[2] = set_fullscreen(~read)
            /\ ~calls[1].ok => Issued(calls)[2] = set_fullscreen(TRUE)
            /\ win = IF calls[2].ok THEN [snap EXCEPT !.fullscreen = ~read]
                     ELSE snap

C8_Witness ==
    /\ Returned("toggle_fullscreen")
    /\ ~calls[1].ok /\ calls[2].ok
    /\ snap.fullscreen /\ win.fullscreen

\* C9: when another source changes the fullscreen flag between the read and
\* the write of toggle_fullscreen, the write still sets the negation of the
\* value read; after one such change the flag is what it was just before
\* the write.
C9_ToggleRace ==
    (Returned("toggle_fullscreen") /\ calls[2].ok) =>
        /\ win.fullscreen = ~is_fs
        /\ (calls[1].ok /\ ext % 2 = 1) =>
              /\ is_fs = snap.fullscreen
              /\ win.fullscreen = ~snap.fullscreen

C9_Witness ==
    /\ Returned("toggle_fullscreen") /\ AllOk(calls)
    /\ ext = 1
    /\ snap.fullscreen /\ ~win.fullscreen

\* C10: from a window that is not fullscreen and undecorated at once, no
\* sequence of set_display_mode whose platform calls succeed makes it so,
\* not even between two calls of a preset.
C10_NeverFullscreenUndecorated ==
    ~(win.fullscreen /\ ~win.decorations)

C10_Witness ==
    /\ pc = "set_display_mode" /\ mode = "borderless" /\ i = 2
    /\ snap.fullscreen /\ snap.decorations
    /\ ~win.fullscreen /\ win.decorations

====
